---- MODULE Spec2Model ----
(***************************************************************************)
(* State-machine model of squirm.execution: the ExecParams parameter set,  *)
(* the three executors (BasicExecutor, SlurmExecutor, LCLSFExecutor) with  *)
(* get_command / __call__ / run / call, and the selectors make_executor    *)
(* and get_some_executor.                                                  *)
(*                                                                         *)
(* Representation.  A Python str is a TLA+ string where it is only         *)
(* compared or concatenated (flags, names).  A command token is a sequence *)
(* of atoms (strings), so that the code string of run/call, which the      *)
(* shell and the remote interpreter take apart again, keeps its structure; *)
(* an ordinary token such as "-n" is the one-atom sequence <<"-n">>.       *)
(* An optional value is <<>> (None) or <<v>>.                              *)
(***************************************************************************)
EXTENDS Integers, Sequences, FiniteSets, TLC

(* ------------------------------ bounds -------------------------------- *)

\* parameter values supplied to ExecParams range over 0..MaxValue
MaxValue == 1

\* the caller's command has 1..MaxCmdLen tokens
MaxCmdLen == 2

\* child exit statuses range over -1..MaxExitCode (-1: killed by a signal)
MaxExitCode == 1

\* Executor.call is given up to MaxArgs positional arguments
MaxArgs == 1

(* --------------------------- small helpers ---------------------------- *)

None == <<>>

Some(v) == <<v>>

\* str(value) for an int: decimal digits, "-" for a negative value
Digit == <<"0", "1", "2", "3", "4", "5", "6", "7", "8", "9">>

RECURSIVE StrNat(_)
StrNat(n) == IF n < 10 THEN Digit[n + 1]
             ELSE StrNat(n \div 10) \o Digit[(n % 10) + 1]

Str(value) == IF value < 0 THEN "-" \o StrNat(0 - value) ELSE StrNat(value)

\* a one-atom token
Tok(s) == <<s>>

(* ----------------------------- ExecParams ----------------------------- *)

\* the keyword order of ExecParams.__init__ / _create_param_dict
ParamNames == <<"num_tasks", "num_nodes", "tasks_per_node", "gpus_per_task">>

\* variant of _create_param_dict testing `if value:` instead of
\* `if value is not None:`, which also drops a supplied 0
RECURSIVE _create_param_dict_truthy(_)
_create_param_dict_truthy(kwargs) ==
    IF kwargs = <<>> THEN <<>>
    ELSE LET item == Head(kwargs)
             rest == _create_param_dict_truthy(Tail(kwargs))
         IN  IF item.value # None /\ item.value[1] # 0
             THEN <<[name |-> item.name, value |-> item.value[1]]>> \o rest
             ELSE rest

\* ExecParams._create_param_dict(**kwargs): kwargs is the sequence of
\* (name, optional value) pairs in keyword order; the dict keeps insertion
\* order and holds the pairs whose value is not None.
RECURSIVE _create_param_dict(_)
_create_param_dict(kwargs) ==
    IF kwargs = <<>> THEN <<>>
    ELSE LET item == Head(kwargs)
             rest == _create_param_dict(Tail(kwargs))
         IN  IF item.value # None
             THEN <<[name |-> item.name, value |-> item.value[1]]>> \o rest
             ELSE rest

\* ExecParams.__init__(num_tasks, num_nodes, tasks_per_node, gpus_per_task)
ExecParams(num_tasks, num_nodes, tasks_per_node, gpus_per_task) ==
    [none |-> FALSE,
     param_dict |-> _create_param_dict(
        <<[name |-> "num_tasks", value |-> num_tasks],
          [name |-> "num_nodes", value |-> num_nodes],
          [name |-> "tasks_per_node", value |-> tasks_per_node],
          [name |-> "gpus_per_task", value |-> gpus_per_task]>>)]

\* exec_params=None
NoExecParams == [none |-> TRUE, param_dict |-> <<>>]

(* ----------------------------- exceptions ----------------------------- *)

NoExc == [type |-> "", param_name |-> "", exit_code |-> 0, key |-> None]

\* ExecParamError(param_name)
ExecParamError(param_name) ==
    [type |-> "ExecParamError", param_name |-> param_name, exit_code |-> 0,
     key |-> None]

\* ProcessError(exit_code)
ProcessError(exit_code) ==
    [type |-> "ProcessError", param_name |-> "", exit_code |-> exit_code,
     key |-> None]

(* ----------------------------- get_command ---------------------------- *)

\* The result of a get_command call: the exception raised (NoExc if none),
\* the returned list, and the caller's command list and the ExecParams'
\* param_dict as the call leaves them.
GetCommandResult(exc, ret, command, param_dict) ==
    [exc |-> exc, ret |-> ret, command |-> command, param_dict |-> param_dict]

BasicFlags(name, value) ==
    IF name = "num_tasks" THEN <<Tok("-n"), Tok(Str(value))>>
    ELSE <<>>

\* variant of SlurmFlags with a branch for gpus_per_task
SlurmFlags_gpus(name, value) ==
    IF name = "num_tasks" THEN <<Tok("-n"), Tok(Str(value))>>
    ELSE IF name = "num_nodes" THEN <<Tok("-N"), Tok(Str(value))>>
    ELSE IF name = "tasks_per_node"
         THEN <<Tok("--ntasks-per-node=" \o Str(value))>>
    ELSE IF name = "gpus_per_task"
         THEN <<Tok("--gpus-per-task=" \o Str(value))>>
    ELSE <<>>

SlurmFlags(name, value) ==
    IF name = "num_tasks" THEN <<Tok("-n"), Tok(Str(value))>>
    ELSE IF name = "num_nodes" THEN <<Tok("-N"), Tok(Str(value))>>
    ELSE IF name = "tasks_per_node"
         THEN <<Tok("--ntasks-per-node=" \o Str(value))>>
    ELSE <<>>

LCLSFFlags(name, value) ==
    IF name = "num_tasks" THEN <<Tok("-n"), Tok(Str(value))>>
    ELSE IF name = "num_nodes" THEN <<Tok("-N"), Tok(Str(value))>>
    ELSE IF name = "tasks_per_node" THEN <<Tok("-T"), Tok(Str(value))>>
    ELSE IF name = "gpus_per_task" THEN <<Tok("-g"), Tok(Str(value))>>
    ELSE <<>>

ExecutorTypes == {"BasicExecutor", "SlurmExecutor", "LCLSFExecutor"}

\* the if/elif chain of the class `self` for one item; <<>> stands for the
\* else branch, which raises
Flags(self, name, value) ==
    CASE self = "BasicExecutor" -> BasicFlags(name, value)
      [] self = "SlurmExecutor" -> SlurmFlags(name, value)
      [] self = "LCLSFExecutor" -> LCLSFFlags(name, value)

\* the loop `for name, value in param_dict.items()`: returns the list with
\* the flags appended so far and the exception that ended the loop
RECURSIVE ParamLoop(_, _, _)
ParamLoop(self, items, exec_command) ==
    IF items = <<>> THEN [exc |-> NoExc, exec_command |-> exec_command]
    ELSE LET name  == Head(items).name
             value == Head(items).value
             flags == Flags(self, name, value)
         IN  IF flags = <<>>
             THEN [exc |-> ExecParamError(name), exec_command |-> exec_command]
             ELSE ParamLoop(self, Tail(items), exec_command \o flags)

\* the executable each class puts first
Executable(self) ==
    CASE self = "BasicExecutor" -> "mpiexec"
      [] self = "SlurmExecutor" -> "srun"
      [] self = "LCLSFExecutor" -> "lrun"

\* variant of get_command that prepends to the list it was given instead
\* of building a fresh one
get_command_inplace(self, command, exec_params) ==
    LET param_dict == IF exec_params.none THEN <<>> ELSE exec_params.param_dict
        loop == ParamLoop(self, param_dict, <<Tok(Executable(self))>>)
    IN  IF loop.exc # NoExc
        THEN GetCommandResult(loop.exc, <<>>, command, exec_params.param_dict)
        ELSE GetCommandResult(NoExc, loop.exec_command \o command,
                              loop.exec_command \o command,
                              exec_params.param_dict)

\* <class>.get_command(command, exec_params): a fresh list holding the
\* executable, the loop over param_dict, then `exec_command += command`
get_command(self, command, exec_params) ==
    LET param_dict == IF exec_params.none THEN <<>> ELSE exec_params.param_dict
        loop == ParamLoop(self, param_dict, <<Tok(Executable(self))>>)
    IN  IF loop.exc # NoExc
        THEN GetCommandResult(loop.exc, <<>>, command, exec_params.param_dict)
        ELSE GetCommandResult(NoExc, loop.exec_command \o command, command,
                              exec_params.param_dict)

(* ------------------- Python objects and pickling --------------------- *)

\* A Python object handed to Executor.call.  kind is "str", "lock" (a
\* thread lock: not picklable), "function", "tuple" or "dict"; items holds
\* the elements of a tuple, the values of a dict (keys holds its keys) and
\* the arguments a functools.partial has bound to a function.
Obj(kind, name, keys, items) ==
    [kind |-> kind, name |-> name, keys |-> keys, items |-> items]

PyStr(s) == Obj("str", s, <<>>, <<>>)

PyLock == Obj("lock", "", <<>>, <<>>)

PyTuple(items) == Obj("tuple", "", <<>>, items)

PyDict(keys, items) == Obj("dict", "", keys, items)

\* partial(func, *bound); PyFunction(name, <<>>) is the plain function
PyFunction(name, bound) == Obj("function", name, <<>>, bound)

\* whether pickle.dumps(obj) succeeds: a lock and a lambda are refused, a
\* container is refused when one of its items is
RECURSIVE Picklable(_)
Picklable(obj) ==
    /\ obj.kind # "lock"
    /\ ~(obj.kind = "function" /\ obj.name = "<lambda>")
    /\ \A i \in 1..Len(obj.items) : Picklable(obj.items[i])

\* pickle.dumps(obj): an injective byte string
RECURSIVE pickle_dumps(_)
RECURSIVE pickle_items(_, _, _)
pickle_items(keys, items, i) ==
    IF i > Len(items) THEN ""
    ELSE (IF keys = <<>> THEN "" ELSE keys[i] \o "=")
         \o pickle_dumps(items[i]) \o pickle_items(keys, items, i + 1)

pickle_dumps(obj) ==
    CASE obj.kind = "str"      -> "S" \o obj.name \o "."
      [] obj.kind = "lock"     -> "L."
      [] obj.kind = "function" ->
            "c" \o obj.name \o "(" \o pickle_items(<<>>, obj.items, 1) \o ")R."
      [] obj.kind = "tuple"    ->
            "(" \o pickle_items(<<>>, obj.items, 1) \o "t."
      [] obj.kind = "dict"     ->
            "}(" \o pickle_items(obj.keys, obj.items, 1) \o "u."

\* base64.b64encode(data).decode("ascii"): an injective text form
b64encode(data) == "b64[" \o data \o "]"

\* embed(obj) of Executor.call: the source text of an expression that
\* rebuilds obj, as three atoms
embed(obj) ==
    <<"pickle.loads(base64.b64decode(\"",
      b64encode(pickle_dumps(obj)),
      "\".encode(\"ascii\")))">>

\* variant of calling_code testing len(args) > 1 instead of len(args) > 0
calling_code_offbyone(func, args, kwargs) ==
    <<"import", " ", "pickle;", " ", "import", " ", "base64;", " ">>
    \o embed(func) \o <<"(">>
    \o (IF Len(args.items) > 1 THEN <<"*">> \o embed(args) \o <<",", " ">>
        ELSE <<>>)
    \o (IF Len(kwargs.items) > 0 THEN <<"**">> \o embed(kwargs) ELSE <<>>)
    \o <<")">>

\* the calling_code string that Executor.call assembles
calling_code(func, args, kwargs) ==
    <<"import", " ", "pickle;", " ", "import", " ", "base64;", " ">>
    \o embed(func) \o <<"(">>
    \o (IF Len(args.items) > 0 THEN <<"*">> \o embed(args) \o <<",", " ">>
        ELSE <<>>)
    \o (IF Len(kwargs.items) > 0 THEN <<"**">> \o embed(kwargs) ELSE <<>>)
    \o <<")">>

(* ---------------------- __call__, run and call ------------------------ *)

\* " ".join(exec_command): the atoms of the tokens, one " " between tokens
RECURSIVE Join(_)
Join(tokens) ==
    IF tokens = <<>> THEN <<>>
    ELSE IF Len(tokens) = 1 THEN tokens[1]
    ELSE tokens[1] \o <<" ">> \o Join(Tail(tokens))

\* what a method does up to the point where it blocks in subprocess.call:
\* the exception it raised before that (NoExc if none), whether it spawned
\* the child and with which command line, and the caller's command list and
\* the param_dict as it leaves them
Started(exc, spawn, cmdline, command, param_dict) ==
    [exc |-> exc, spawn |-> spawn, cmdline |-> cmdline, command |-> command,
     param_dict |-> param_dict]

\* <class>.__call__(command, exec_params) up to subprocess.call
__call__(self, command, exec_params) ==
    LET r == get_command(self, command, exec_params)
    IN  IF r.exc # NoExc
        THEN Started(r.exc, FALSE, <<>>, r.command, r.param_dict)
        ELSE Started(NoExc, TRUE, Join(r.ret), r.command, r.param_dict)

\* variant of __call__exit testing exit_code > 0, which lets a child killed
\* by a signal pass for a success
__call__exit_positive(exit_code) ==
    IF exit_code > 0 THEN ProcessError(exit_code) ELSE NoExc

\* <class>.__call__ after subprocess.call returned exit_code
__call__exit(exit_code) ==
    IF exit_code # 0 THEN ProcessError(exit_code) ELSE NoExc

sys_executable == "python"

\* variant of run that only builds the command line and never executes it
run_dry(self, code_string, exec_params) ==
    LET r == get_command(self,
                         <<Tok(sys_executable), Tok("-m"), Tok("mpi4py"),
                           Tok("-c"), <<"'">> \o code_string \o <<"'">>>>,
                         exec_params)
    IN  Started(r.exc, FALSE, <<>>, r.command, r.param_dict)

\* Executor.run(code_string, exec_params): the list it passes to __call__
\* is its own, so the caller's command is untouched
run(self, code_string, exec_params) ==
    __call__(self,
             <<Tok(sys_executable), Tok("-m"), Tok("mpi4py"), Tok("-c"),
               <<"'">> \o code_string \o <<"'">>>>,
             exec_params)

\* the exception pickle.dumps raises inside embed for an object it cannot
\* pickle (pickle.PicklingError for a lambda, TypeError for a lock)
PicklingError ==
    [type |-> "PicklingError", param_name |-> "", exit_code |-> 0, key |-> None]

\* variant of call that pickles func only after the job was launched: the
\* string handed to run is assembled without pickling args and kwargs
call_unchecked(self, func, args, kwargs, exec_params) ==
    IF ~Picklable(func)
    THEN Started(PicklingError, FALSE, <<>>, <<>>, exec_params.param_dict)
    ELSE run(self, calling_code(func, args, kwargs), exec_params)

\* Executor.call(func, *args, exec_params=None, **kwargs): func is embedded
\* first, args and kwargs only when non-empty, then run is called
call(self, func, args, kwargs, exec_params) ==
    IF ~Picklable(func)
    THEN Started(PicklingError, FALSE, <<>>, <<>>, exec_params.param_dict)
    ELSE IF Len(args.items) > 0 /\ ~Picklable(args)
    THEN Started(PicklingError, FALSE, <<>>, <<>>, exec_params.param_dict)
    ELSE IF Len(kwargs.items) > 0 /\ ~Picklable(kwargs)
    THEN Started(PicklingError, FALSE, <<>>, <<>>, exec_params.param_dict)
    ELSE run(self, calling_code(func, args, kwargs), exec_params)

(* ------------- the child: shell, launcher, remote interpreter --------- *)

\* the values the modelled callers pass to Executor.call
CallValues == {PyStr("hello"), PyLock}

\* the callers' functions: _test_mpi_func, partial(_test_mpi_func, "hello")
\* and a lambda
CallFuncs ==
    {PyFunction("_test_mpi_func", <<>>),
     PyFunction("_test_mpi_func", <<PyStr("hello")>>),
     PyFunction("<lambda>", <<>>)}

\* the sequences over S of length n
RECURSIVE SeqsOfLen(_, _)
SeqsOfLen(S, n) ==
    IF n = 0 THEN {<<>>}
    ELSE {Append(q, v) : q \in SeqsOfLen(S, n - 1), v \in S}

\* *args: up to MaxArgs values
CallArgs == {PyTuple(q) : q \in UNION {SeqsOfLen(CallValues, n) : n \in 0..MaxArgs}}

\* **kwargs: nothing, or the keyword arg
CallKwargs ==
    {PyDict(<<>>, <<>>)}
    \cup {PyDict(<<"arg">>, <<v>>) : v \in {PyStr("hello"), PyLock}}

\* everything the remote interpreter can get back from pickle.loads
Picklables == {o \in CallFuncs \cup CallArgs \cup CallKwargs : Picklable(o)}

\* pickle.loads(base64.b64decode(text.encode("ascii"))): None when text is
\* not the encoding of a pickle
loads_b64(text) ==
    LET objs == {o \in Picklables : b64encode(pickle_dumps(o)) = text}
    IN  IF objs = {} THEN None ELSE Some(CHOOSE o \in objs : TRUE)

\* the value of the expression at code[i..i+2], if it is an embed expression
EvalEmbed(code, i) ==
    IF /\ i + 2 <= Len(code)
       /\ code[i] = "pickle.loads(base64.b64decode(\""
       /\ code[i + 2] = "\".encode(\"ascii\")))"
    THEN loads_b64(code[i + 1])
    ELSE None

\* _test_mpi_func(arg): Barrier, then `assert arg == "hello"`; positional
\* holds the arguments bound by partial followed by *args
Invoke(func, args, kwargs) ==
    LET positional == func.items \o args.items
    IN  /\ func.kind = "function" /\ func.name = "_test_mpi_func"
        /\ args.kind = "tuple" /\ kwargs.kind = "dict"
        /\ \/ Len(positional) = 1 /\ kwargs.keys = <<>>
              /\ positional[1] = PyStr("hello")
           \/ Len(positional) = 0 /\ kwargs.keys = <<"arg">>
              /\ kwargs.items[1] = PyStr("hello")

\* one task's `python -m mpi4py -c code`: the calls the code makes, as
\* records of the values received, and whether it ends without an exception
PyResult(ok, calls) == [ok |-> ok, calls |-> calls]

PyExec(code) ==
    LET n == Len(code)
        f == EvalEmbed(code, 9)
        m == IF n >= 13 THEN SubSeq(code, 13, n - 1) ELSE <<>>
        a == IF Len(m) >= 4 /\ m[1] = "*" THEN EvalEmbed(m, 2) ELSE None
        k == IF Len(m) = 4 /\ m[1] = "**" THEN EvalEmbed(m, 2)
             ELSE IF Len(m) = 10 /\ m[7] = "**" THEN EvalEmbed(m, 8)
             ELSE None
        wellformed ==
            /\ n >= 13
            /\ SubSeq(code, 1, 8) =
                 <<"import", " ", "pickle;", " ", "import", " ", "base64;", " ">>
            /\ f # None /\ code[12] = "(" /\ code[n] = ")"
            \* f(), f(*a), f(*a, ), f(**k), f(*a, **k)
            /\ \/ m = <<>>
               \/ Len(m) = 4 /\ a # None
               \/ Len(m) = 6 /\ a # None /\ m[5] = "," /\ m[6] = " "
               \/ Len(m) = 4 /\ k # None
               \/ Len(m) = 10 /\ a # None /\ m[5] = "," /\ m[6] = " "
                  /\ k # None
        args == IF a # None THEN a[1] ELSE PyTuple(<<>>)
        kwargs == IF k # None THEN k[1] ELSE PyDict(<<>>, <<>>)
    IN  IF code = <<"assert", " ", "True">> THEN PyResult(TRUE, <<>>)
        ELSE IF ~wellformed THEN PyResult(FALSE, <<>>)
        ELSE PyResult(Invoke(f[1], args, kwargs),
                      <<[func |-> f[1], args |-> args, kwargs |-> kwargs]>>)

\* the words /bin/sh makes of a command line: split at blanks outside
\* single quotes, the quotes removed; no words for an unterminated quote
RECURSIVE ShellSplit(_, _, _, _)
ShellSplit(atoms, word, inword, quoted) ==
    IF atoms = <<>>
    THEN IF quoted THEN <<>> ELSE IF inword THEN <<word>> ELSE <<>>
    ELSE LET a == Head(atoms)
             rest == Tail(atoms)
         IN  IF quoted
             THEN IF a = "'" THEN ShellSplit(rest, word, TRUE, FALSE)
                  ELSE ShellSplit(rest, Append(word, a), TRUE, TRUE)
             ELSE IF a = "'" THEN ShellSplit(rest, word, TRUE, TRUE)
             ELSE IF a = " "
                  THEN IF inword THEN <<word>> \o ShellSplit(rest, <<>>, FALSE, FALSE)
                       ELSE ShellSplit(rest, <<>>, FALSE, FALSE)
             ELSE ShellSplit(rest, Append(word, a), TRUE, FALSE)

ShellWords(cmdline) == ShellSplit(cmdline, <<>>, FALSE, FALSE)

\* the program a launcher runs: the words after its own name and options
RECURSIVE SkipOptions(_)
SkipOptions(words) ==
    IF words = <<>> THEN <<>>
    ELSE IF Head(words) \in {Tok("-n"), Tok("-N"), Tok("-T"), Tok("-g")}
    THEN IF Len(words) >= 2 THEN SkipOptions(Tail(Tail(words))) ELSE <<>>
    ELSE IF Head(words) \in
              {Tok("--ntasks-per-node=" \o Str(v)) : v \in 0..MaxValue}
    THEN SkipOptions(Tail(words))
    ELSE words

LauncherProgram(cmdline) ==
    LET words == ShellWords(cmdline)
    IN  IF words = <<>> THEN <<>> ELSE SkipOptions(Tail(words))

\* what the tasks of the job do when the launcher starts them
ProgramResult(program) ==
    IF program = <<>> THEN PyResult(FALSE, <<>>)
    ELSE IF program[1] = Tok("true") THEN PyResult(TRUE, <<>>)
    ELSE IF /\ Len(program) = 5
            /\ SubSeq(program, 1, 4) =
                 <<Tok(sys_executable), Tok("-m"), Tok("mpi4py"), Tok("-c")>>
    THEN PyExec(program[5])
    ELSE PyResult(FALSE, <<>>)

ExitCodes == (0 - 1)..MaxExitCode

\* the exit statuses subprocess.call can return for a command line: 0 when
\* the launcher started the job and its program succeeded, otherwise any
\* nonzero status
ReturnCodes(cmdline, launched) ==
    IF launched /\ ProgramResult(LauncherProgram(cmdline)).ok THEN {0}
    ELSE ExitCodes \ {0}

(* ----------------------------- selectors ------------------------------ *)

\* KeyError(key), raised by the lookup type_name_map[executor_type_name]
KeyError(key) ==
    [type |-> "KeyError", param_name |-> "", exit_code |-> 0, key |-> Some(key)]

\* RuntimeError("Unable to detect a valid MPI executor.")
RuntimeError ==
    [type |-> "RuntimeError", param_name |-> "", exit_code |-> 0, key |-> None]

\* the result of a selector: the exception raised, the class of the
\* instance returned ("" if none), the `which` probes run and the warnings
\* emitted, both in order
Selected(exc, executor, probes, warnings) ==
    [exc |-> exc, executor |-> executor, probes |-> probes,
     warnings |-> warnings]

\* type_name_map of make_executor, as the sequence of its items
type_name_map ==
    <<[name |-> "basic", type |-> "BasicExecutor"],
      [name |-> "slurm", type |-> "SlurmExecutor"],
      [name |-> "lclsf", type |-> "LCLSFExecutor"]>>

\* variant of make_executor that falls back to BasicExecutor for a name
\* that is not in the map
make_executor_default(executor_type_name) ==
    LET hits == {i \in 1..Len(type_name_map) :
                    type_name_map[i].name = executor_type_name}
    IN  IF hits = {}
        THEN Selected(NoExc, "BasicExecutor", <<>>, <<>>)
        ELSE Selected(NoExc, type_name_map[CHOOSE i \in hits : TRUE].type,
                      <<>>, <<>>)

\* make_executor(executor_type_name)
make_executor(executor_type_name) ==
    LET hits == {i \in 1..Len(type_name_map) :
                    type_name_map[i].name = executor_type_name}
    IN  IF hits = {}
        THEN Selected(KeyError(executor_type_name), "", <<>>, <<>>)
        ELSE Selected(NoExc, type_name_map[CHOOSE i \in hits : TRUE].type,
                      <<>>, <<>>)

\* executor_types_in_ascending_order of get_some_executor
executor_types_in_ascending_order ==
    <<[name |-> "basic", type |-> "BasicExecutor"],
      [name |-> "slurm", type |-> "SlurmExecutor"],
      [name |-> "lclsf", type |-> "LCLSFExecutor"]>>

\* variant of the guessing loop that stops at the first executable found
RECURSIVE GuessLoop_first(_, _, _, _)
GuessLoop_first(i, path, guess, probes) ==
    IF i > Len(executor_types_in_ascending_order)
    THEN [guess |-> guess, probes |-> probes]
    ELSE LET entry == executor_types_in_ascending_order[i]
             executable == get_command(entry.type, <<>>, NoExecParams).ret[1][1]
         IN  IF executable \in path
             THEN [guess |-> <<entry>>, probes |-> Append(probes, executable)]
             ELSE GuessLoop_first(i + 1, path, guess, Append(probes, executable))

\* the guessing loop of get_some_executor from entry i on: each entry's
\* executable is probed with `which`, which exits 0 iff it is on the path;
\* guess is the (name, type) pair found so far, <<>> for (None, None)
RECURSIVE GuessLoop(_, _, _, _)
GuessLoop(i, path, guess, probes) ==
    IF i > Len(executor_types_in_ascending_order)
    THEN [guess |-> guess, probes |-> probes]
    ELSE LET entry == executor_types_in_ascending_order[i]
             executable == get_command(entry.type, <<>>, NoExecParams).ret[1][1]
             found == executable \in path
         IN  GuessLoop(i + 1, path, IF found THEN <<entry>> ELSE guess,
                       Append(probes, executable))

\* variant of get_some_executor that warns before looking at what the loop
\* found and whether the name was explicit
get_some_executor_warns(environ, path) ==
    LET loop == GuessLoop(1, path, <<>>, <<>>)
        warning ==
            <<"SQUIRM_EXECUTOR_TYPE has not been set; guessed executor type '"
              \o (IF loop.guess # <<>> THEN loop.guess[1].name ELSE "None")
              \o "'.">>
    IN  IF environ # None
        THEN [make_executor(environ[1]) EXCEPT !.warnings = warning]
        ELSE IF loop.guess # <<>>
             THEN Selected(NoExc, loop.guess[1].type, loop.probes, warning)
             ELSE Selected(RuntimeError, "", loop.probes, warning)

\* get_some_executor(): environ is the optional value of
\* SQUIRM_EXECUTOR_TYPE, path the set of executables `which` finds
get_some_executor(environ, path) ==
    IF environ # None THEN make_executor(environ[1])
    ELSE LET loop == GuessLoop(1, path, <<>>, <<>>)
         IN  IF loop.guess # <<>>
             THEN Selected(NoExc, loop.guess[1].type, loop.probes,
                    <<"SQUIRM_EXECUTOR_TYPE has not been set; guessed executor type '"
                      \o loop.guess[1].name \o "'.">>)
             ELSE Selected(RuntimeError, "", loop.probes, <<>>)

(* --------------------------- state machine ---------------------------- *)

VARIABLES
    environ,      \* os.environ.get("SQUIRM_EXECUTOR_TYPE", None)
    path,         \* the launcher executables `which` finds
    selection,    \* the last selector call and what it did
    executor,     \* class of the Executor instance the caller holds, or ""
    command,      \* the caller's command list
    exec_params,  \* the caller's ExecParams object (or None)
    pc,           \* "idle", or "blocked" inside subprocess.call
    child,        \* the child process of the current/last invocation
    spawned,      \* number of children the current/last invocation spawned
    last,         \* the current/last executor method call and its outcome
    supplied,     \* history: the four arguments given to ExecParams(...)
    built         \* history: the distinct (inputs, outcome) of get_command calls

vars == <<environ, path, selection, executor, command, exec_params, pc, child,
          spawned, last, supplied, built>>

selector_vars == <<environ, path, selection, executor>>

Executables == {"mpiexec", "srun", "lrun"}

\* values of SQUIRM_EXECUTOR_TYPE / arguments of make_executor
TypeNames == {"basic", "slurm", "lclsf", "bogus", ""}

OptValues == {None} \cup {Some(v) : v \in 0..MaxValue}

\* the callers' commands: a program and up to MaxCmdLen - 1 arguments
Commands ==
    {<<prog>> \o argv : prog \in {Tok("true"), Tok("false")},
                        argv \in UNION {SeqsOfLen({Tok("x")}, n) :
                                           n \in 0..(MaxCmdLen - 1)}}

\* code strings the modelled callers pass to Executor.run
CodeStrings == {<<"assert", " ", "True">>, <<"assert", " ", "False">>}

NoObj == Obj("none", "", <<>>, <<>>)

NoChild == [status |-> "none", cmdline |-> <<>>, launched |-> FALSE,
            returncode |-> 0]

NoSelection == [op |-> "", name |-> None, exc |-> NoExc, probes |-> <<>>,
                warnings |-> <<>>]

NoLast == [op |-> "", status |-> "", exc |-> NoExc, ret |-> <<>>,
           command |-> <<>>, exec_params |-> NoExecParams, again |-> FALSE,
           func |-> NoObj, args |-> NoObj, kwargs |-> NoObj, code |-> <<>>]

\* a caller holding an executor, a command list and an ExecParams (or None)
InitCaller ==
    /\ environ = None
    /\ path = {}
    /\ selection = NoSelection
    /\ executor \in ExecutorTypes
    /\ \/ /\ supplied = <<None, None, None, None>>
          /\ exec_params = NoExecParams
       \/ \E a \in OptValues, b \in OptValues, c \in OptValues, d \in OptValues :
             /\ supplied = <<a, b, c, d>>
             /\ exec_params = ExecParams(a, b, c, d)
    /\ pc = "idle"
    /\ child = NoChild
    /\ spawned = 0
    /\ last = NoLast
    /\ built = {}

\* a caller that runs commands, code and functions; its command is ["true"]
Init == InitCaller /\ command = <<Tok("true")>>

\* a caller that builds and executes commands of its own
InitCommand == InitCaller /\ command \in Commands

\* a process about to select an executor, in any environment
InitSelector ==
    /\ environ \in {None} \cup {Some(n) : n \in TypeNames}
    /\ path \in SUBSET Executables
    /\ selection = NoSelection
    /\ executor = ""
    /\ command = <<Tok("true")>>
    /\ exec_params = NoExecParams
    /\ supplied = <<None, None, None, None>>
    /\ pc = "idle"
    /\ child = NoChild
    /\ spawned = 0
    /\ last = NoLast
    /\ built = {}

\* mpi_exec.get_command(command, exec_params)
GetCommand ==
    /\ pc = "idle"
    /\ LET r == get_command(executor, command, exec_params)
       IN  /\ last' = [NoLast EXCEPT
                         !.op = "get_command",
                         !.status = IF r.exc = NoExc THEN "returned" ELSE "raised",
                         !.exc = r.exc, !.ret = r.ret,
                         !.command = command, !.exec_params = exec_params,
                         !.again = (built # {})]
           /\ command' = r.command
           /\ exec_params' = [exec_params EXCEPT !.param_dict = r.param_dict]
           /\ built' = built \cup {[command |-> command,
                                      exec_params |-> exec_params,
                                      exc |-> r.exc, ret |-> r.ret]}
    /\ spawned' = 0
    /\ child' = NoChild
    /\ UNCHANGED <<pc, supplied, selector_vars>>

\* the part of __call__ / run / call up to subprocess.call: either the
\* method has raised, or the child runs and the caller is blocked
Begin(st, rec) ==
    /\ last' = [rec EXCEPT !.status = IF st.spawn THEN "pending"
                                      ELSE IF st.exc = NoExc THEN "returned"
                                      ELSE "raised",
                           !.exc = st.exc, !.exec_params = exec_params]
    /\ spawned' = IF st.spawn THEN 1 ELSE 0
    /\ child' = IF st.spawn
                THEN [NoChild EXCEPT !.status = "running", !.cmdline = st.cmdline]
                ELSE NoChild
    /\ pc' = IF st.spawn THEN "blocked" ELSE "idle"
    /\ exec_params' = [exec_params EXCEPT !.param_dict = st.param_dict]
    /\ UNCHANGED <<supplied, built, selector_vars>>

\* mpi_exec(command, exec_params)
Execute ==
    /\ pc = "idle"
    /\ LET st == __call__(executor, command, exec_params)
       IN  /\ Begin(st, [NoLast EXCEPT !.op = "__call__", !.command = command])
           /\ command' = st.command

\* mpi_exec.run(code_string, exec_params)
Run ==
    /\ pc = "idle"
    /\ \E code_string \in CodeStrings :
          Begin(run(executor, code_string, exec_params),
                [NoLast EXCEPT !.op = "run", !.code = code_string])
    /\ UNCHANGED command

\* mpi_exec.call(func, *args, exec_params=exec_params, **kwargs)
Call ==
    /\ pc = "idle"
    /\ \E func \in CallFuncs, args \in CallArgs, kwargs \in CallKwargs :
          Begin(call(executor, func, args, kwargs, exec_params),
                [NoLast EXCEPT !.op = "call", !.func = func, !.args = args,
                               !.kwargs = kwargs])
    /\ UNCHANGED command

\* subprocess.call returns the child's exit status and __call__ finishes
Exit ==
    /\ pc = "blocked"
    /\ \E launched \in BOOLEAN :
       \E exit_code \in ReturnCodes(child.cmdline, launched) :
          /\ child' = [child EXCEPT !.status = "exited", !.launched = launched,
                                    !.returncode = exit_code]
          /\ LET exc == __call__exit(exit_code)
             IN  last' = [last EXCEPT
                            !.status = IF exc = NoExc THEN "returned" ELSE "raised",
                            !.exc = exc]
    /\ pc' = "idle"
    /\ UNCHANGED <<command, exec_params, spawned, supplied, built, selector_vars>>

\* mpi_exec = make_executor(name)
MakeExecutor ==
    /\ \E name \in TypeNames :
          LET r == make_executor(name)
          IN  /\ selection' = [op |-> "make_executor", name |-> Some(name),
                               exc |-> r.exc, probes |-> r.probes,
                               warnings |-> r.warnings]
              /\ executor' = r.executor
    /\ UNCHANGED <<environ, path, command, exec_params, pc, child, spawned, last,
                   supplied, built>>

\* mpi_exec = get_some_executor()
GetSomeExecutor ==
    /\ LET r == get_some_executor(environ, path)
       IN  /\ selection' = [op |-> "get_some_executor", name |-> environ,
                            exc |-> r.exc, probes |-> r.probes,
                            warnings |-> r.warnings]
           /\ executor' = r.executor
    /\ UNCHANGED <<environ, path, command, exec_params, pc, child, spawned, last,
                   supplied, built>>

Next == GetCommand \/ Execute \/ Run \/ Call \/ Exit

Spec == Init /\ [][Next]_vars

NextCommand == GetCommand \/ Execute \/ Exit

SpecCommand == InitCommand /\ [][NextCommand]_vars

NextSelector == MakeExecutor \/ GetSomeExecutor

SpecSelector == InitSelector /\ [][NextSelector]_vars

(* ------------------ the specification's vocabulary -------------------- *)

\* the accepted keys, executables and flag templates of the three variants
AcceptedKeys(self) ==
    CASE self = "BasicExecutor" -> {"num_tasks"}
      [] self = "SlurmExecutor" -> {"num_tasks", "num_nodes", "tasks_per_node"}
      [] self = "LCLSFExecutor" ->
            {"num_tasks", "num_nodes", "tasks_per_node", "gpus_per_task"}

ExecutableName(self) ==
    CASE self = "BasicExecutor" -> "mpiexec"
      [] self = "SlurmExecutor" -> "srun"
      [] self = "LCLSFExecutor" -> "lrun"

FlagTable(self, name, v) ==
    CASE name = "num_tasks"      -> <<<<"-n">>, <<Str(v)>>>>
      [] name = "num_nodes"      -> <<<<"-N">>, <<Str(v)>>>>
      [] name = "tasks_per_node" ->
            IF self = "SlurmExecutor" THEN <<<<"--ntasks-per-node=" \o Str(v)>>>>
            ELSE <<<<"-T">>, <<Str(v)>>>>
      [] name = "gpus_per_task"  -> <<<<"-g">>, <<Str(v)>>>>

\* the keys present in the caller's parameter set: supplied and not None
PresentKeys == {ParamNames[i] : i \in {j \in 1..4 : supplied[j] # None}}

AllAccepted == PresentKeys \subseteq AcceptedKeys(executor)

\* the first key, in the fixed order, that is present and not accepted
FirstUnsupported ==
    ParamNames[CHOOSE i \in 1..4 :
        /\ supplied[i] # None /\ ParamNames[i] \notin AcceptedKeys(executor)
        /\ \A j \in 1..(i - 1) :
              supplied[j] = None \/ ParamNames[j] \in AcceptedKeys(executor)]

\* the flag tokens of the present keys from key i on, in the fixed order
RECURSIVE ExpectedFlags(_)
ExpectedFlags(i) ==
    IF i > 4 THEN <<>>
    ELSE (IF supplied[i] = None THEN <<>>
          ELSE FlagTable(executor, ParamNames[i], supplied[i][1]))
         \o ExpectedFlags(i + 1)

Serializable(rec) ==
    Picklable(rec.func) /\ Picklable(rec.args) /\ Picklable(rec.kwargs)

Finished == last.status \in {"returned", "raised"}

(* ------------------------------ claims -------------------------------- *)

\* C1: when every present key is accepted by the variant, get_command
\* returns the executable, then the table's flag tokens of the present keys
\* in the order num_tasks, num_nodes, tasks_per_node, gpus_per_task (a
\* supplied 0 is present), then the caller's command tokens unchanged.
C1_BuildCommand ==
    (last.op = "get_command" /\ AllAccepted) =>
        /\ last.status = "returned"
        /\ last.ret = <<<<ExecutableName(executor)>>>> \o ExpectedFlags(1)
                        \o last.command

C1_Witness ==
    /\ last.op = "get_command" /\ last.status = "returned"
    /\ executor = "SlurmExecutor"
    /\ supplied = <<Some(0), None, Some(1), None>>
    /\ Len(last.command) = 2
    /\ last.ret = <<Tok("srun"), Tok("-n"), Tok("0"), Tok("--ntasks-per-node=1")>>
                    \o last.command

\* C2 as stated: with a present key the variant does not accept,
\* get_command, __call__, run and call all raise ExecParamError naming the
\* first unsupported key, return no command and spawn no child.
C2_Original ==
    (last.op \in {"get_command", "__call__", "run", "call"} /\ ~AllAccepted) =>
        /\ last.status = "raised"
        /\ last.exc = ExecParamError(FirstUnsupported)
        /\ last.ret = <<>>
        /\ spawned = 0 /\ child = NoChild

\* C2 amended: the same for get_command, __call__ and run, and for call
\* when func, args and kwargs can be pickled; a call whose func, args or
\* kwargs cannot be pickled raises the pickling error instead, and in every
\* case no command is returned and no child is spawned.
C2_Unsupported ==
    (last.op \in {"get_command", "__call__", "run", "call"} /\ ~AllAccepted) =>
        /\ last.status = "raised"
        /\ IF last.op = "call" /\ ~Serializable(last)
           THEN last.exc = PicklingError
           ELSE last.exc = ExecParamError(FirstUnsupported)
        /\ last.ret = <<>>
        /\ spawned = 0 /\ child = NoChild

C2_Witness ==
    /\ last.op = "call" /\ Serializable(last)
    /\ executor = "SlurmExecutor"
    /\ supplied = <<Some(1), None, None, Some(1)>>
    /\ last.exc = ExecParamError("gpus_per_task")
    /\ spawned = 0

\* C3: once the child of __call__ has exited, __call__ has returned
\* normally iff the exit status is 0, and for a nonzero status c it has
\* raised ProcessError with exit_code = c and nothing else.
C3_ExitCode ==
    (last.op = "__call__" /\ child.status = "exited") =>
        /\ (last.status = "returned") <=> (child.returncode = 0)
        /\ (last.status = "returned") => last.exc = NoExc
        /\ (child.returncode # 0) =>
              last.status = "raised" /\ last.exc = ProcessError(child.returncode)

C3_Witness ==
    /\ last.op = "__call__" /\ child.status = "exited"
    /\ child.returncode = 0 - 1
    /\ last.exc = ProcessError(0 - 1)

\* C4: without SQUIRM_EXECUTOR_TYPE, get_some_executor probes mpiexec,
\* srun and lrun, all three and in that order, and returns the last variant
\* in that order whose executable is present; with none present it raises
\* and returns no instance.
C4_LastFoundWins ==
    (selection.op = "get_some_executor" /\ environ = None) =>
        /\ selection.probes = <<"mpiexec", "srun", "lrun">>
        /\ IF path = {}
           THEN selection.exc = RuntimeError /\ executor = ""
           ELSE /\ selection.exc = NoExc
                /\ executor = IF "lrun" \in path THEN "LCLSFExecutor"
                              ELSE IF "srun" \in path THEN "SlurmExecutor"
                              ELSE "BasicExecutor"

C4_Witness ==
    /\ selection.op = "get_some_executor" /\ environ = None
    /\ path = {"mpiexec", "srun"}
    /\ executor = "SlurmExecutor"

\* C5: with an explicit name the selector returns the variant mapped to it
\* (basic, slurm, lclsf), whatever is on the path and without probing; for
\* any other name it raises the lookup error carrying that name and returns
\* no instance.
C5_ExplicitName ==
    (selection.op # "" /\ selection.name # None) =>
        LET name == selection.name[1]
        IN  /\ selection.probes = <<>>
            /\ IF name \in {"basic", "slurm", "lclsf"}
               THEN /\ selection.exc = NoExc
                    /\ executor = (CASE name = "basic" -> "BasicExecutor"
                                     [] name = "slurm" -> "SlurmExecutor"
                                     [] name = "lclsf" -> "LCLSFExecutor")
                    /\ get_command(executor, <<>>, NoExecParams).ret =
                          <<<<CASE name = "basic" -> "mpiexec"
                                [] name = "slurm" -> "srun"
                                [] name = "lclsf" -> "lrun">>>>
               ELSE selection.exc = KeyError(name) /\ executor = ""

C5_Witness ==
    /\ selection.op = "get_some_executor"
    /\ selection.name = Some("slurm")
    /\ path = {"mpiexec"}
    /\ executor = "SlurmExecutor"

\* C6: a call whose func, args or kwargs cannot be pickled raises the
\* pickling error and has spawned no child.
C6_SerializeFirst ==
    (last.op = "call" /\ ~Serializable(last)) =>
        /\ last.status = "raised" /\ last.exc = PicklingError
        /\ spawned = 0 /\ child = NoChild /\ pc = "idle"

C6_Witness ==
    /\ last.op = "call" /\ AllAccepted
    /\ Picklable(last.func) /\ ~Picklable(last.args) /\ Picklable(last.kwargs)
    /\ last.exc = PicklingError /\ spawned = 0

\* C7: a __call__, run or call that passes parameter validation and
\* pickling spawns exactly one child, is pending exactly while that child
\* runs, and has returned or raised only once the child has exited; no
\* invocation spawns more than one child.
C7_OneChild ==
    /\ spawned <= 1
    /\ (/\ last.op \in {"__call__", "run", "call"} /\ AllAccepted
        /\ (last.op = "call" => Serializable(last))) =>
          /\ spawned = 1
          /\ (last.status = "pending") <=> (child.status = "running")
          /\ Finished <=> (child.status = "exited")
          /\ (pc = "blocked") <=> (child.status = "running")

C7_Witness ==
    /\ last.op = "run" /\ AllAccepted
    /\ last.status = "raised" /\ last.exc.type = "ProcessError"
    /\ child.status = "exited" /\ spawned = 1

\* C8: a successful auto-detected selection emits exactly one warning, which
\* names the guessed variant; a selection by explicit name and a failed
\* auto-detection emit none, and the explicit case runs no probe.
C8_Warning ==
    (selection.op # "") =>
        IF selection.op = "get_some_executor" /\ selection.name = None
           /\ selection.exc = NoExc
        THEN selection.warnings =
               <<"SQUIRM_EXECUTOR_TYPE has not been set; guessed executor type '"
                 \o (CASE executor = "BasicExecutor" -> "basic"
                       [] executor = "SlurmExecutor" -> "slurm"
                       [] executor = "LCLSFExecutor" -> "lclsf")
                 \o "'.">>
        ELSE /\ selection.warnings = <<>>
             /\ selection.name # None => selection.probes = <<>>

C8_Witness ==
    /\ selection.op = "get_some_executor" /\ selection.name = None
    /\ path = {"mpiexec", "lrun"}
    /\ Len(selection.warnings) = 1

\* C9: a call that got as far as its child runs, behind the launcher's
\* executable and flags, `python -m mpi4py -c` with code that unpickles
\* func, args and kwargs and makes one invocation with exactly those values;
\* call returns normally iff the child exits 0, which a started job does
\* iff func accepts these values, and raises ProcessError otherwise.
C9_RemoteCall ==
    (last.op = "call" /\ child.status = "exited") =>
        LET program == LauncherProgram(child.cmdline)
            task == ProgramResult(program)
        IN  /\ Head(ShellWords(child.cmdline)) = <<ExecutableName(executor)>>
            /\ Len(program) = 5
            /\ SubSeq(program, 1, 4) = <<<<"python">>, <<"-m">>, <<"mpi4py">>, <<"-c">>>>
            /\ task.calls = <<[func |-> last.func, args |-> last.args,
                               kwargs |-> last.kwargs]>>
            /\ (last.status = "returned") <=> (child.returncode = 0)
            /\ (last.status = "raised") <=>
                  (child.returncode # 0 /\ last.exc = ProcessError(child.returncode))
            /\ child.launched =>
                  ((child.returncode = 0) <=>
                      Invoke(last.func, last.args, last.kwargs))
            /\ ~child.launched => child.returncode # 0

C9_Witness ==
    /\ last.op = "call" /\ child.status = "exited" /\ child.launched
    /\ last.func = PyFunction("_test_mpi_func", <<>>)
    /\ last.args = PyTuple(<<PyStr("hello")>>)
    /\ last.kwargs = PyDict(<<>>, <<>>)
    /\ last.status = "returned" /\ child.returncode = 0

\* C10: get_command leaves the caller's command list and the ExecParams'
\* mapping as they were, and every get_command call of a behaviour with the
\* same command and parameters, whatever was called in between, has the
\* same outcome.
C10_Idempotent ==
    /\ (last.op = "get_command") =>
          (command = last.command /\ exec_params = last.exec_params)
    /\ \A a \in built :
          /\ a.command = command /\ a.exec_params = exec_params
          /\ \A b \in built :
                (a.command = b.command /\ a.exec_params = b.exec_params) =>
                (a.ret = b.ret /\ a.exc = b.exc)

C10_Witness ==
    /\ last.op = "get_command" /\ last.again
    /\ Len(last.ret) >= 4
    /\ built = {[command |-> command, exec_params |-> exec_params,
                 exc |-> NoExc, ret |-> last.ret]}

====
